---- MODULE Spec2Model ----
(***************************************************************************)
(* Module specifier resolution pipeline of typescript-deno-plugin          *)
(* (src/unnamed/part_000, the plugin's index.ts).                          *)
(*                                                                         *)
(* Specifiers, paths and file contents are TLA+ strings; the JavaScript    *)
(* string methods the code uses are defined below with their JavaScript    *)
(* semantics (indices are 0-based, substring clamps its arguments).        *)
(* A call that does not return a string is modelled by one of the outcome  *)
(* markers Hang, RangeError, Undefined: none of them is a specifier.       *)
(***************************************************************************)
EXTENDS Integers, Sequences, FiniteSets, TLC

VARIABLES
  call,      \* the last call made to a function under study: name, argument, outcome
  files,     \* module files present in the dependency cache (set of paths)
  sidecars,  \* header sidecars present: path of "<module>.ts.headers.json" -> redirect_to
  mapFile,   \* the import-map file on disk: exists, content (a document), mtime
  importMapCache,  \* the Map importMapCache: cache key -> reference to a parsed object
  heap,      \* the parsed import maps, in order of creation: a reference is an index
  load,      \* the last call of getImportMap and the successful one before it
  tsconfig,  \* the project configuration on disk: "none", "plain" or "importMap"
  transformFromImportMap,  \* the plugin's variable of that name: a closure or undefined
  projectDirectory,        \* the plugin's variable of that name: a path or Undefined
  changed,   \* the configuration on disk changed after the last call of a plugin hook
  last       \* the last call of a plugin hook and what it did

vars ==
  << call, files, sidecars, mapFile, importMapCache, heap, load,
     tsconfig, transformFromImportMap, projectDirectory, changed, last >>

\* the variables of the plugin instance
hookVars == <<transformFromImportMap, projectDirectory, last>>
pluginVars == <<hookVars, changed>>

\* the variables of the pure functions' calls and of the file system they read
pureVars == <<call, files, sidecars>>

\* the variables of the Import Map Store
storeVars == <<importMapCache, heap, load>>

(***************************************************************************)
(* Outcomes that are not strings.                                          *)
(***************************************************************************)
\* the call never returns: a loop whose state no longer changes
Hang == "#hang"
\* the call throws RangeError (maximum call stack size exceeded)
RangeError == "#RangeError"
\* the JavaScript value undefined
Undefined == "#undefined"


(***************************************************************************)
(* JavaScript string methods.                                              *)
(***************************************************************************)
Min(a, b) == IF a < b THEN a ELSE b
Max(a, b) == IF a < b THEN b ELSE a

\* s.substring(a, b): both indices clamped to [0, s.length], swapped if a > b
Substring(s, a, b) ==
  LET ca == Max(0, Min(a, Len(s)))
      cb == Max(0, Min(b, Len(s)))
  IN  SubSeq(s, Min(ca, cb) + 1, Max(ca, cb))

\* s.substring(a)
SubstringFrom(s, a) == Substring(s, a, Len(s))

\* s.startsWith(p)
StartsWith(s, p) == Len(p) <= Len(s) /\ SubSeq(s, 1, Len(p)) = p

\* s.endsWith(p)
EndsWith(s, p) == Len(p) <= Len(s) /\ SubSeq(s, Len(s) - Len(p) + 1, Len(s)) = p

RECURSIVE IndexFrom(_, _, _)
\* the 0-based index of the first occurrence of p in s at or after i, or -1
IndexFrom(s, p, i) ==
  IF i + Len(p) > Len(s) THEN -1
  ELSE IF SubSeq(s, i + 1, i + Len(p)) = p THEN i
  ELSE IndexFrom(s, p, i + 1)

\* s.indexOf(p)
IndexOf(s, p) == IndexFrom(s, p, 0)

\* s.replace(p, r) with a string pattern: the first occurrence only
ReplaceFirst(s, p, r) ==
  LET i == IndexOf(s, p)
  IN  IF i = -1 THEN s
      ELSE SubSeq(s, 1, i) \o r \o SubSeq(s, i + Len(p) + 1, Len(s))

\* s.slice(0, -n)
SliceOffEnd(s, n) == SubSeq(s, 1, Max(0, Len(s) - n))

(***************************************************************************)
(* Specifier Normalizer.                                                   *)
(***************************************************************************)
RECURSIVE QueryLoop(_, _, _)
\* The for loop of getModuleWithQueryString: index is a const computed once
\* from moduleName, name is cut by index + 1 characters after every pass.
\* Once name is empty the update leaves it empty and the test `index !== -1`
\* stays true: the loop spins for ever.
QueryLoop(moduleName, name, index) ==
  IF index = -1 THEN Undefined
  ELSE IF EndsWith(Substring(name, 0, index), ".ts")
       THEN LET cutLength == Len(moduleName) - Len(name)
            IN  Substring(moduleName, 0, index + cutLength)
  ELSE IF SubstringFrom(name, index + 1) = name THEN Hang
  ELSE QueryLoop(moduleName, SubstringFrom(name, index + 1), index)

getModuleWithQueryString(moduleName) ==
  QueryLoop(moduleName, moduleName, IndexOf(moduleName, "?"))

stripExtNameDotTs(moduleName) ==
  LET moduleWithQuery == getModuleWithQueryString(moduleName)
  IN  IF moduleWithQuery = Hang THEN Hang
      ELSE IF moduleWithQuery # Undefined /\ moduleWithQuery # "" THEN moduleWithQuery
      ELSE IF ~EndsWith(moduleName, ".ts") THEN moduleName
      ELSE SliceOffEnd(moduleName, 3)

(***************************************************************************)
(* Import-map documents and the objects JSON.parse makes of them.          *)
(*                                                                         *)
(* A document is the text of a file, kept as what JSON.parse reads in it:  *)
(* whether it is valid JSON, whether its top level has an "imports"        *)
(* object, and that object's members in document order (names distinct).   *)
(* The parsed imports object is the list of its own properties in the      *)
(* order JavaScript enumerates them.                                       *)
(***************************************************************************)
InvalidJson == [json |-> FALSE, hasImports |-> FALSE, entries |-> << >>]
NoImports == [json |-> TRUE, hasImports |-> FALSE, entries |-> << >>]
ImportsDoc(entries) == [json |-> TRUE, hasImports |-> TRUE, entries |-> entries]

\* no file at the path
NoFile == [exists |-> FALSE, content |-> InvalidJson, mtime |-> 0]

DigitValue(c) == IndexOf("0123456789", c)

RECURSIVE ToNumber(_)
ToNumber(k) ==
  IF k = "" THEN 0
  ELSE 10 * ToNumber(SubSeq(k, 1, Len(k) - 1)) + DigitValue(SubSeq(k, Len(k), Len(k)))

\* k is a canonical array index: JavaScript enumerates such property names
\* first, in ascending numeric order. (Names of ten digits, where the limit
\* 2^32 - 2 falls, are not drawn.)
IsArrayIndex(k) ==
  /\ Len(k) \in 1..9
  /\ \A i \in 1..Len(k) : DigitValue(SubSeq(k, i, i)) # -1
  /\ Len(k) = 1 \/ SubSeq(k, 1, 1) # "0"

\* obj[k] = v on a property list: a present name keeps its place, a new
\* array index goes among the array indices, any other new name goes last
DefineProperty(props, k, v) ==
  IF \E i \in 1..Len(props) : props[i][1] = k
    THEN [i \in 1..Len(props) |-> IF props[i][1] = k THEN <<k, v>> ELSE props[i]]
  ELSE IF IsArrayIndex(k)
    THEN LET before == Cardinality({i \in 1..Len(props) :
                         /\ IsArrayIndex(props[i][1])
                         /\ ToNumber(props[i][1]) < ToNumber(k)})
         IN  SubSeq(props, 1, before) \o <<(<<k, v>>)>> \o SubSeq(props, before + 1, Len(props))
  ELSE Append(props, <<k, v>>)

RECURSIVE DefineAll(_, _)
DefineAll(props, entries) ==
  IF entries = << >> THEN props
  ELSE DefineAll(DefineProperty(props, Head(entries)[1], Head(entries)[2]), Tail(entries))

\* JSON.parse(text) as IImportMap, for a text that is valid JSON
JSONParse(doc) == [hasImports |-> doc.hasImports, imports |-> DefineAll(<< >>, doc.entries)]

\* Object.keys(imports)
ObjectKeys(imports) == [i \in 1..Len(imports) |-> imports[i][1]]

\* imports[key], key an own property
Get(imports, key) == imports[CHOOSE i \in 1..Len(imports) : imports[i][1] = key][2]

\* the call throws TypeError
TypeError == "#TypeError"

\* importMapTransform taking the last matching key instead of the first
importMapTransform_LastMatch(importMap, moduleName) ==
  IF ~importMap.hasImports THEN TypeError
  ELSE LET imports == importMap.imports
           importKeys == ObjectKeys(imports)
           hits == {i \in 1..Len(importKeys) : StartsWith(moduleName, importKeys[i])}
       IN  IF hits = {} THEN moduleName
           ELSE LET key == importKeys[CHOOSE i \in hits : \A j \in hits : j <= i]
                    strippedModuleName == SubstringFrom(moduleName, Len(key))
                IN  Get(imports, key) \o strippedModuleName

\* The closure makeTransformFromImportMap returns over importMap, applied to
\* moduleName. Object.keys(undefined) throws.
importMapTransform(importMap, moduleName) ==
  IF ~importMap.hasImports THEN TypeError
  ELSE LET imports == importMap.imports
           importKeys == ObjectKeys(imports)
           hits == {i \in 1..Len(importKeys) : StartsWith(moduleName, importKeys[i])}
       IN  IF hits = {} THEN moduleName
           ELSE LET key == importKeys[CHOOSE i \in hits : \A j \in hits : i <= j]
                    strippedModuleName == SubstringFrom(moduleName, Len(key))
                IN  Get(imports, key) \o strippedModuleName

(***************************************************************************)
(* Import Map Store.                                                       *)
(***************************************************************************)
\* path.resolve(tsconfigDirectory, denoOptions.importMap)
ImportMapPath == "/proj/import_map.json"

\* `${filePath}-${fileStats.mtimeMs}`
CacheKey(filePath, mtimeMs) == filePath \o "-" \o ToString(mtimeMs)

\* no call of getImportMap yet
NoLoad ==
  [ outcome |-> "none", mtime |-> 0, cached |-> FALSE, read |-> FALSE, added |-> FALSE,
    ref |-> 0, prevRef |-> 0, prevMtime |-> 0 ]

InitStoreVars ==
  /\ importMapCache = << >>
  /\ heap = << >>
  /\ load = NoLoad

\* let transformFromImportMap: ModuleMappingFunction | undefined
NoTransform == [kind |-> "undefined", importMap |-> 0]

\* no hook called yet
NoHook ==
  [op |-> "none", moduleNames |-> << >>, outcome |-> "none", handed |-> << >>]

\* the plugin instance init() returns, no hook called yet
InitPluginVars ==
  /\ transformFromImportMap = NoTransform
  /\ projectDirectory = Undefined
  /\ changed = FALSE
  /\ last = NoHook

\* getImportMap with the cache keyed by the path alone
getImportMap_KeyedByPath(filePath) ==
  IF ~mapFile.exists
    THEN [outcome |-> "ENOENT", ref |-> 0, read |-> FALSE,
          cache |-> importMapCache, heap |-> heap]
  ELSE LET cacheKey == filePath
           isCached == cacheKey \in DOMAIN importMapCache
       IN  IF ~isCached
             THEN IF ~mapFile.content.json
                    THEN [outcome |-> "SyntaxError", ref |-> 0, read |-> TRUE,
                          cache |-> importMapCache, heap |-> heap]
                  ELSE LET workingImportMap == Len(heap) + 1
                       IN  [outcome |-> "returned", ref |-> workingImportMap, read |-> TRUE,
                            cache |-> [k \in DOMAIN importMapCache \cup {cacheKey} |->
                                         IF k = cacheKey THEN workingImportMap
                                         ELSE importMapCache[k]],
                            heap |-> Append(heap, JSONParse(mapFile.content))]
           ELSE [outcome |-> "returned", ref |-> importMapCache[cacheKey], read |-> FALSE,
                 cache |-> importMapCache, heap |-> heap]

\* getImportMap(filePath) on the file as it is now: what it returns or
\* throws, and the cache and heap it leaves. fs.statSync throws ENOENT on a
\* missing file, JSON.parse throws SyntaxError on a text that is not JSON.
getImportMap(filePath) ==
  IF ~mapFile.exists
    THEN [outcome |-> "ENOENT", ref |-> 0, read |-> FALSE,
          cache |-> importMapCache, heap |-> heap]
  ELSE LET cacheKey == CacheKey(filePath, mapFile.mtime)
           isCached == cacheKey \in DOMAIN importMapCache
       IN  IF ~isCached
             THEN IF ~mapFile.content.json
                    THEN [outcome |-> "SyntaxError", ref |-> 0, read |-> TRUE,
                          cache |-> importMapCache, heap |-> heap]
                  ELSE LET workingImportMap == Len(heap) + 1
                       IN  [outcome |-> "returned", ref |-> workingImportMap, read |-> TRUE,
                            cache |-> [k \in DOMAIN importMapCache \cup {cacheKey} |->
                                         IF k = cacheKey THEN workingImportMap
                                         ELSE importMapCache[k]],
                            heap |-> Append(heap, JSONParse(mapFile.content))]
           ELSE [outcome |-> "returned", ref |-> importMapCache[cacheKey], read |-> FALSE,
                 cache |-> importMapCache, heap |-> heap]

\* what a call of getImportMap leaves in `load`: its outcome, the mtime it
\* saw, whether the cache had an entry for that mtime, whether it read the
\* file and whether it added a cache entry, the reference it returned, and
\* the reference and mtime of the successful call before it
LoadRecord(result) ==
  [ outcome |-> result.outcome,
    mtime |-> mapFile.mtime,
    cached |-> CacheKey(ImportMapPath, mapFile.mtime) \in DOMAIN importMapCache,
    read |-> result.read,
    added |-> DOMAIN result.cache # DOMAIN importMapCache,
    ref |-> result.ref,
    prevRef |-> IF load.outcome = "returned" THEN load.ref ELSE load.prevRef,
    prevMtime |-> IF load.outcome = "returned" THEN load.mtime ELSE load.prevMtime ]

(***************************************************************************)
(* Inputs of the normalizer: every string over NormAlphabet up to MaxLen   *)
(* characters, and the examples the specification names.                   *)
(***************************************************************************)
MaxLen == 5

NormAlphabet == {"a", ".", "t", "s", "?"}

RECURSIVE StringsOfLen(_)
StringsOfLen(n) ==
  IF n = 0 THEN {""}
  ELSE {s \o c : s \in StringsOfLen(n - 1), c \in NormAlphabet}

NormExamples ==
  { "mod.ts?x=1", "mod.ts", "foo/bar.ts", "foo/bar.js", "foo/bar.ts?raw",
    "aaa?.ts", "abcdef?x.ts", "a?b.ts?c", "https://deno.land/std/http/mod.ts" }

NormInputs == UNION {StringsOfLen(n) : n \in 0..MaxLen} \cup NormExamples

\* a call that has been made and has not yet run
Pending == "#pending"

\* The normalizer is a pure function: the initial state holds the call's
\* argument, the one action runs the call.
InitNormalizer ==
  /\ \E s \in NormInputs : call = [fn |-> "stripExtNameDotTs", arg |-> s, ret |-> Pending]
  /\ files = {}
  /\ sidecars = << >>
  /\ mapFile = NoFile
  /\ InitStoreVars
  /\ InitPluginVars
  /\ tsconfig = "none"

\* the call stripExtNameDotTs(call.arg) runs
Normalize ==
  /\ call.fn = "stripExtNameDotTs"
  /\ call.ret = Pending
  /\ call' = [call EXCEPT !.ret = stripExtNameDotTs(call.arg)]
  /\ UNCHANGED <<files, sidecars, mapFile, storeVars, tsconfig, pluginVars>>

NextNormalizer == Normalize

SpecNormalizer == InitNormalizer /\ [][NextNormalizer]_vars

(***************************************************************************)
(* What the specification says of the normalizer.                          *)
(***************************************************************************)
\* the 1-based positions of the query markers of s that follow a ".ts"-suffixed segment
TsQueryMarks(s) ==
  {i \in 1..Len(s) : SubSeq(s, i, i) = "?" /\ EndsWith(SubSeq(s, 1, i - 1), ".ts")}

FirstTsQueryMark(s) ==
  CHOOSE i \in TsQueryMarks(s) : \A j \in TsQueryMarks(s) : i <= j

\* the extension strip of section 4.3: a trailing ".ts" removed, else unchanged
ExtensionStrip(s) == IF EndsWith(s, ".ts") THEN SliceOffEnd(s, 3) ELSE s

NormalizerReturned ==
  /\ call.fn = "stripExtNameDotTs"
  /\ call.ret \notin {Pending, Hang}

\* C3: a specifier with a query marker after a ".ts"-suffixed segment is cut
\* at that marker and then loses its trailing ".ts" ("mod.ts?x=1" gives
\* "mod"); a specifier without "?" loses a trailing ".ts" and is otherwise
\* returned unchanged.
C3_QueryCutThenStripped ==
  NormalizerReturned =>
    /\ TsQueryMarks(call.arg) # {} =>
         call.ret = ExtensionStrip(SubSeq(call.arg, 1, FirstTsQueryMark(call.arg) - 1))
    /\ IndexOf(call.arg, "?") = -1 => call.ret = ExtensionStrip(call.arg)

\* C4: the normalizer returns for every input string, and a specifier that
\* contains "?" with no ".ts"-terminated segment before any "?" is returned
\* completely unmodified, its query included.
C4_NormalizerTotal ==
  (call.fn = "stripExtNameDotTs" /\ call.ret # Pending) =>
    /\ call.ret # Hang
    /\ (IndexOf(call.arg, "?") # -1 /\ TsQueryMarks(call.arg) = {}) => call.ret = call.arg

(***************************************************************************)
(* Remote Cache Mapper and Redirect Resolver.                              *)
(***************************************************************************)
\* getDenoDir(): the root of the dependency cache, an absolute POSIX path
DenoDir == "/home/u/.deno"

\* One segment of a path taken up by path.resolve's normalization: empty
\* and "." segments are dropped, ".." removes the segment before it.
PushSegment(stack, seg) ==
  IF seg = "" \/ seg = "." THEN stack
  ELSE IF seg = ".." THEN SubSeq(stack, 1, Max(0, Len(stack) - 1))
  ELSE Append(stack, seg)

RECURSIVE SplitPath(_, _, _, _)
\* the segments of p from its i-th character on, normalized onto stack
SplitPath(p, i, seg, stack) ==
  IF i > Len(p) THEN PushSegment(stack, seg)
  ELSE IF SubSeq(p, i, i) = "/" THEN SplitPath(p, i + 1, "", PushSegment(stack, seg))
  ELSE SplitPath(p, i + 1, seg \o SubSeq(p, i, i), stack)

RECURSIVE JoinPath(_)
JoinPath(stack) ==
  IF stack = << >> THEN "" ELSE "/" \o Head(stack) \o JoinPath(Tail(stack))

\* the normal form of an absolute POSIX path
NormalizeAbsolute(p) ==
  LET stack == SplitPath(p, 1, "", << >>)
  IN  IF stack = << >> THEN "/" ELSE JoinPath(stack)

RECURSIVE JoinUntilAbsolute(_, _, _)
\* path.resolve's right-to-left pass: arguments are prepended until one is absolute
JoinUntilAbsolute(args, i, resolved) ==
  IF i = 0 THEN resolved
  ELSE IF args[i] = "" THEN JoinUntilAbsolute(args, i - 1, resolved)
  ELSE IF StartsWith(args[i], "/") THEN args[i] \o "/" \o resolved
  ELSE JoinUntilAbsolute(args, i - 1, args[i] \o "/" \o resolved)

\* path.resolve(...args) on POSIX, some argument being absolute
PathResolve(args) == NormalizeAbsolute(JoinUntilAbsolute(args, Len(args), ""))

\* fs.existsSync on a module file and on a header sidecar
ModuleFileExists(path) == path \in files
SidecarExists(path) == path \in DOMAIN sidecars

IsRemote(moduleName) ==
  StartsWith(moduleName, "http://") \/ StartsWith(moduleName, "https://")

RECURSIVE convertRemoteToLocalCacheAt(_, _), fallbackHeaderAt(_, _)

\* fallbackHeaderAt returning the path it probed instead of the path it was given
fallbackHeaderAt_ReturnsProbed(modulePath, hops) ==
  LET validPath == IF EndsWith(modulePath, ".ts") THEN modulePath ELSE modulePath \o ".ts"
      headersPath == validPath \o ".headers.json"
  IN  IF ModuleFileExists(validPath) THEN validPath
      ELSE IF SidecarExists(headersPath)
        THEN LET stripped == stripExtNameDotTs(sidecars[headersPath])
             IN  IF stripped = Hang THEN Hang
                 ELSE convertRemoteToLocalCacheAt(stripped, hops + 1)
      ELSE modulePath

\* fallbackHeader(modulePath), `hops` sidecars having been followed so far
fallbackHeaderAt(modulePath, hops) ==
  LET validPath == IF EndsWith(modulePath, ".ts") THEN modulePath ELSE modulePath \o ".ts"
      headersPath == validPath \o ".headers.json"
  IN  IF ModuleFileExists(validPath) THEN modulePath
      ELSE IF SidecarExists(headersPath)
        THEN LET stripped == stripExtNameDotTs(sidecars[headersPath])
             IN  IF stripped = Hang THEN Hang
                 ELSE convertRemoteToLocalCacheAt(stripped, hops + 1)
      ELSE modulePath

\* convertRemoteToLocalCacheAt with the "http://" prefix forgotten
convertRemoteToLocalCacheAt_HttpsOnly(moduleName, hops) ==
  IF ~StartsWith(moduleName, "https://") THEN moduleName
  ELSE IF hops > Cardinality(DOMAIN sidecars) THEN RangeError
  ELSE fallbackHeaderAt(
         PathResolve(<<DenoDir, "deps", ReplaceFirst(moduleName, "://", "/")>>), hops)

\* convertRemoteToLocalCache(moduleName), `hops` sidecars having been followed
\* so far. The calls are deterministic and read a file system that does not
\* change meanwhile: once more sidecars have been followed than exist, one of
\* them has been followed twice and the recursion never ends, which
\* JavaScript ends with a RangeError.
convertRemoteToLocalCacheAt(moduleName, hops) ==
  IF ~IsRemote(moduleName) THEN moduleName
  ELSE IF hops > Cardinality(DOMAIN sidecars) THEN RangeError
  ELSE fallbackHeaderAt(
         PathResolve(<<DenoDir, "deps", ReplaceFirst(moduleName, "://", "/")>>), hops)

convertRemoteToLocalCache(moduleName) == convertRemoteToLocalCacheAt(moduleName, 0)

fallbackHeader(modulePath) == fallbackHeaderAt(modulePath, 0)

(***************************************************************************)
(* The dependency caches and the calls the cache functions are run on:     *)
(* every set of module files and every assignment of sidecars over three   *)
(* remote modules, redirect chains and cycles among them included.         *)
(***************************************************************************)
\* "<DenoDir>/deps/<scheme>/<host>/<path>", as the specification writes it
LiteralCachePath(moduleName) ==
  DenoDir \o "/deps/" \o ReplaceFirst(moduleName, "://", "/")

CacheModules ==
  {"https://deno.land/x/std/log/mod", "https://deno.land/x/new/mod", "http://h/m"}

ModuleFileUniverse == {LiteralCachePath(m) \o ".ts" : m \in CacheModules}

SidecarUniverse == {f \o ".headers.json" : f \in ModuleFileUniverse}

RedirectTargets ==
  {m \o ".ts" : m \in CacheModules} \cup {"./vendor/mod.ts", "https://h/a?b"}

SidecarStates ==
  UNION {[d -> RedirectTargets] : d \in SUBSET SidecarUniverse}

ConvertInputs ==
  CacheModules \cup
  { "http://h/m.ts", "http://h/./m", "http://h//m", "http://h/x/../m", "http://h/m/",
    "./local/mod", "std/http/mod", "/abs/http://h/m", "ftp://h/m", "httpx://h/m" }

FallbackInputs ==
  {LiteralCachePath(m) : m \in CacheModules} \cup {LiteralCachePath("http://h/m.ts")}

InitCache ==
  /\ mapFile = NoFile
  /\ tsconfig = "none"
  /\ InitStoreVars
  /\ InitPluginVars
  /\ files \in SUBSET ModuleFileUniverse
  /\ sidecars \in SidecarStates
  /\ \/ \E s \in ConvertInputs :
          call = [fn |-> "convertRemoteToLocalCache", arg |-> s, ret |-> Pending]
     \/ \E q \in FallbackInputs :
          call = [fn |-> "fallbackHeader", arg |-> q, ret |-> Pending]

\* the call convertRemoteToLocalCache(call.arg) runs
Convert ==
  /\ call.fn = "convertRemoteToLocalCache"
  /\ call.ret = Pending
  /\ call' = [call EXCEPT !.ret = convertRemoteToLocalCache(call.arg)]
  /\ UNCHANGED <<files, sidecars, mapFile, storeVars, tsconfig, pluginVars>>

\* the call fallbackHeader(call.arg) runs
Fallback ==
  /\ call.fn = "fallbackHeader"
  /\ call.ret = Pending
  /\ call' = [call EXCEPT !.ret = fallbackHeader(call.arg)]
  /\ UNCHANGED <<files, sidecars, mapFile, storeVars, tsconfig, pluginVars>>

NextCache == Convert \/ Fallback

SpecCache == InitCache /\ [][NextCache]_vars

(***************************************************************************)
(* What the specification says of the cache functions.                     *)
(***************************************************************************)
\* the path fallbackHeader probes for the module file of a cache path
Candidate(cachePath) ==
  IF EndsWith(cachePath, ".ts") THEN cachePath ELSE cachePath \o ".ts"

\* the module file a remote specifier is cached in is present
CachedFilePresent(moduleName) ==
  ModuleFileExists(Candidate(NormalizeAbsolute(LiteralCachePath(moduleName))))

\* <host>/<path> has no empty, "." or ".." segment and no trailing "/"
PlainSegments(moduleName) ==
  LET rest == "/" \o SubstringFrom(moduleName, IndexOf(moduleName, "://") + 3) \o "/"
  IN  /\ IndexOf(rest, "//") = -1
      /\ IndexOf(rest, "/./") = -1
      /\ IndexOf(rest, "/../") = -1

ConvertReturned ==
  /\ call.fn = "convertRemoteToLocalCache"
  /\ call.ret \notin {Pending, Hang, RangeError}

\* C5 as stated: a specifier that begins with neither "http://" nor
\* "https://" is returned unchanged, and a remote specifier whose cached
\* module file is present is returned as the string
\* "<DenoDir>/deps/<scheme>/<host>/<path>".
C5_LiteralCachePath ==
  ConvertReturned =>
    /\ ~IsRemote(call.arg) => call.ret = call.arg
    /\ (IsRemote(call.arg) /\ CachedFilePresent(call.arg)) =>
         call.ret = LiteralCachePath(call.arg)

\* C5 as amended: a specifier that begins with neither "http://" nor
\* "https://" is returned unchanged; a remote specifier whose cached module
\* file is present is returned as the normal form of
\* "<DenoDir>/deps/<scheme>/<host>/<path>", which is that very string when
\* <host>/<path> has no empty, "." or ".." segment and no trailing "/".
C5_ResolvedCachePath ==
  ConvertReturned =>
    /\ ~IsRemote(call.arg) => call.ret = call.arg
    /\ (IsRemote(call.arg) /\ CachedFilePresent(call.arg)) =>
         /\ call.ret = NormalizeAbsolute(LiteralCachePath(call.arg))
         /\ PlainSegments(call.arg) => call.ret = LiteralCachePath(call.arg)

\* the example of section 8 has run with its module file in the cache
C5_Witness ==
  /\ call.fn = "convertRemoteToLocalCache"
  /\ call.arg = "https://deno.land/x/std/log/mod"
  /\ ModuleFileExists("/home/u/.deno/deps/https/deno.land/x/std/log/mod.ts")
  /\ call.ret = "/home/u/.deno/deps/https/deno.land/x/std/log/mod"

FallbackReturned ==
  /\ call.fn = "fallbackHeader"
  /\ call.ret \notin {Pending, Hang, RangeError}

\* C6: fallbackHeader on a cache path P with candidate C (P, with ".ts"
\* appended if missing) returns P if a file exists at C, else P if no sidecar
\* C.headers.json exists, else the cache mapping of the sidecar's
\* redirect_to target after normalization: the extension-less cache path of
\* the target when the target's module file is present.
C6_FallbackHeaderCases ==
  FallbackReturned =>
    LET candidate == Candidate(call.arg)
        headers == candidate \o ".headers.json"
    IN  /\ ModuleFileExists(candidate) => call.ret = call.arg
        /\ (~ModuleFileExists(candidate) /\ ~SidecarExists(headers)) => call.ret = call.arg
        /\ (~ModuleFileExists(candidate) /\ SidecarExists(headers)) =>
             /\ call.ret = convertRemoteToLocalCache(stripExtNameDotTs(sidecars[headers]))
             /\ ( /\ IsRemote(sidecars[headers])
                  /\ CachedFilePresent(ExtensionStrip(sidecars[headers])) ) =>
                  call.ret = LiteralCachePath(ExtensionStrip(sidecars[headers]))

\* the redirect example of section 8: no module file at the cache path, a
\* sidecar that redirects to https://deno.land/x/new/mod.ts, which is cached
C6_Witness ==
  /\ call.fn = "fallbackHeader"
  /\ call.arg = "/home/u/.deno/deps/https/deno.land/x/std/log/mod"
  /\ ~ModuleFileExists("/home/u/.deno/deps/https/deno.land/x/std/log/mod.ts")
  /\ SidecarExists("/home/u/.deno/deps/https/deno.land/x/std/log/mod.ts.headers.json")
  /\ sidecars["/home/u/.deno/deps/https/deno.land/x/std/log/mod.ts.headers.json"]
       = "https://deno.land/x/new/mod.ts"
  /\ ModuleFileExists("/home/u/.deno/deps/https/deno.land/x/new/mod.ts")
  /\ call.ret = "/home/u/.deno/deps/https/deno.land/x/new/mod"

\* C7: for every cache path and every state of the dependency cache, sidecar
\* chains that point back to an earlier member included, the recursion
\* fallbackHeader -> convertRemoteToLocalCache -> fallbackHeader ends.
C7_RedirectRecursionEnds ==
  (call.fn \in {"fallbackHeader", "convertRemoteToLocalCache"} /\ call.ret # Pending) =>
    call.ret # RangeError

(***************************************************************************)
(* The substitution function on its own: every import map of up to         *)
(* MaxEntries members over MapKeys and MapValues, applied to a specifier.  *)
(***************************************************************************)
MaxEntries == 2

MapKeys == {"std/", "std/log/", "lib/", "1", "12"}

MapValues == {"https://deno.land/x/std/", "std/", "v/"}

MapSpecifiers == {"std/log/mod.ts", "lib/x", "123", "./util.ts", "1/a"}

RECURSIVE EntriesOfLen(_)
\* the member lists of n members with distinct names
EntriesOfLen(n) ==
  IF n = 0 THEN {<< >>}
  ELSE {Append(es, <<k, v>>) :
          es \in EntriesOfLen(n - 1),
          k \in MapKeys,
          v \in MapValues} \ {Append(es, <<es[i][1], v>>) :
                                 es \in EntriesOfLen(n - 1),
                                 i \in 1..(n - 1),
                                 v \in MapValues}

ImportMapDocs == {ImportsDoc(es) : es \in UNION {EntriesOfLen(n) : n \in 0..MaxEntries}}

InitImportMap ==
  /\ tsconfig = "importMap"
  /\ InitStoreVars
  /\ InitPluginVars
  /\ files = {}
  /\ sidecars = << >>
  /\ \E doc \in ImportMapDocs : mapFile = [exists |-> TRUE, content |-> doc, mtime |-> 1]
  /\ \E s \in MapSpecifiers :
       call = [fn |-> "transformFromImportMap", arg |-> s, ret |-> Pending]

\* the substitution function built from the parsed file is applied to call.arg
Substitute ==
  /\ call.fn = "transformFromImportMap"
  /\ call.ret = Pending
  /\ call' = [call EXCEPT !.ret = importMapTransform(JSONParse(mapFile.content), call.arg)]
  /\ UNCHANGED <<files, sidecars, mapFile, storeVars, tsconfig, pluginVars>>

NextImportMap == Substitute

SpecImportMap == InitImportMap /\ [][NextImportMap]_vars

SubstitutionReturned ==
  /\ call.fn = "transformFromImportMap"
  /\ call.ret # Pending

\* the substitution that scans the members `entries` in the order `before`
\* (before[i][j]: member i is scanned before member j): the first member
\* whose name is a literal prefix of s replaces that prefix by its value,
\* the rest of s kept verbatim; no such member, s is returned unchanged
FirstPrefixSubstitution(entries, before(_, _), s) ==
  LET hits == {i \in 1..Len(entries) : StartsWith(s, entries[i][1])}
  IN  IF hits = {} THEN s
      ELSE LET first == CHOOSE i \in hits : \A j \in hits \ {i} : before(i, j)
           IN  entries[first][2] \o SubSeq(s, Len(entries[first][1]) + 1, Len(s))

\* C2 as stated: the keys are scanned in document order; the first key that
\* is a literal prefix of the specifier is replaced by its value, the
\* remainder kept verbatim; no key matching, the specifier is unchanged; the
\* result is not substituted again.
C2_DocumentOrder ==
  SubstitutionReturned =>
    LET DocumentOrder(i, j) == i < j
    IN  call.ret = FirstPrefixSubstitution(mapFile.content.entries, DocumentOrder, call.arg)

\* C2 as amended: the keys are scanned in Object.keys order, which is the
\* keys that are canonical array indices ("1", "12") in ascending numeric
\* order, then the other keys in document order: document order when no key
\* is an array index.
C2_ObjectKeysOrder ==
  SubstitutionReturned =>
    LET entries == mapFile.content.entries
        IsIndex(i) == IsArrayIndex(entries[i][1])
        KeysOrder(i, j) ==
          \/ IsIndex(i) /\ ~IsIndex(j)
          \/ IsIndex(i) /\ IsIndex(j) /\ ToNumber(entries[i][1]) < ToNumber(entries[j][1])
          \/ ~IsIndex(i) /\ ~IsIndex(j) /\ i < j
        DocumentOrder(i, j) == i < j
    IN  /\ call.ret = FirstPrefixSubstitution(entries, KeysOrder, call.arg)
        /\ (\A i \in 1..Len(entries) : ~IsIndex(i)) =>
             call.ret = FirstPrefixSubstitution(entries, DocumentOrder, call.arg)

\* two keys are prefixes of the specifier and the first of the document has
\* been substituted, once: the result starts with the mapped key "std/"
C2_Witness ==
  /\ call.fn = "transformFromImportMap"
  /\ mapFile.content.entries = << <<"lib/", "std/">>, <<"std/", "https://deno.land/x/std/">> >>
  /\ call.arg = "lib/x"
  /\ call.ret = "std/x"

(***************************************************************************)
(* The Import Map Store over a file that is written, touched and deleted   *)
(* between the loads.                                                      *)
(***************************************************************************)
\* modification times are drawn from 1..MaxTime
MaxTime == 2

StdMap ==
  ImportsDoc(<< <<"std/", "https://deno.land/x/std/">>,
                <<"log", "https://deno.land/x/std/log/mod.ts">> >>)
OtherMap == ImportsDoc(<< <<"std/", "http://h/">> >>)

FileContents == {StdMap, OtherMap, NoImports, InvalidJson}

InitStore ==
  /\ tsconfig = "importMap"
  /\ call = [fn |-> "none", arg |-> "", ret |-> ""]
  /\ files = {}
  /\ sidecars = << >>
  /\ mapFile \in {NoFile} \cup
       [exists : {TRUE}, content : FileContents, mtime : 1..MaxTime]
  /\ InitStoreVars
  /\ InitPluginVars

\* The file is created or written: any content, and any mtime. The mtime may
\* be the one it had (a write within the resolution of the timestamp, or
\* followed by utimes) and may be an earlier one (a restored copy).
WriteImportMap(doc, t) ==
  /\ mapFile' = [exists |-> TRUE, content |-> doc, mtime |-> t]
  /\ mapFile' # mapFile
  /\ changed' = TRUE
  /\ UNCHANGED <<pureVars, storeVars, tsconfig, hookVars>>

DeleteImportMap ==
  /\ mapFile.exists
  /\ mapFile' = NoFile
  /\ changed' = TRUE
  /\ UNCHANGED <<pureVars, storeVars, tsconfig, hookVars>>

\* one call of getImportMap(ImportMapPath)
GetImportMap ==
  LET result == getImportMap(ImportMapPath)
  IN  /\ importMapCache' = result.cache
      /\ heap' = result.heap
      /\ load' = LoadRecord(result)
      /\ UNCHANGED <<pureVars, mapFile, tsconfig, pluginVars>>

NextStore ==
  \/ \E doc \in FileContents, t \in 1..MaxTime : WriteImportMap(doc, t)
  \/ DeleteImportMap
  \/ GetImportMap

SpecStore == InitStore /\ [][NextStore]_vars

(***************************************************************************)
(* What the specification says of the store's cache.                       *)
(***************************************************************************)
\* the last call of getImportMap returned a map, and so did one before it
LoadedAgain == load.outcome = "returned" /\ load.prevRef # 0

\* the last call of getImportMap added an entry under the key of the mtime
\* it saw, for an object parsed by that call and shared with no other entry
AddedFreshEntry ==
  /\ load.added
  /\ load.read
  /\ load.ref = Len(heap)
  /\ CacheKey(ImportMapPath, load.mtime) \in DOMAIN importMapCache
  /\ \A k \in DOMAIN importMapCache :
       importMapCache[k] = load.ref <=> k = CacheKey(ImportMapPath, load.mtime)

\* the last call of getImportMap returned the object of the successful call
\* before it and did not read the file
SameObjectNoRead ==
  /\ load.ref = load.prevRef
  /\ ~load.read
  /\ ~load.added

\* C8 as stated: of two successive loads of the path, the second returns the
\* first one's object without reading the file when the modification time is
\* the same, and adds a new, independently parsed entry under
\* "<path>-<mtimeMs>" when the modification time has changed.
C8_NewEntryOnChangedMtime ==
  LoadedAgain =>
    /\ load.mtime = load.prevMtime => SameObjectNoRead
    /\ load.mtime # load.prevMtime => AddedFreshEntry

\* no entry of the cache is ever removed or overwritten
CacheOnlyGrows ==
  \A k \in DOMAIN importMapCache :
    k \in DOMAIN importMapCache' /\ importMapCache'[k] = importMapCache[k]

\* what holds after every load that returns
C8_LoadByKey ==
  load.outcome = "returned" =>
    /\ CacheKey(ImportMapPath, load.mtime) \in DOMAIN importMapCache
    /\ importMapCache[CacheKey(ImportMapPath, load.mtime)] = load.ref
    /\ (load.prevRef # 0 /\ load.mtime = load.prevMtime) => SameObjectNoRead
    /\ ~load.cached => AddedFreshEntry
    /\ load.cached => ~load.read /\ ~load.added
    /\ (load.prevRef # 0 /\ load.mtime # load.prevMtime) =>
         /\ load.ref # load.prevRef
         /\ CacheKey(ImportMapPath, load.prevMtime) \in DOMAIN importMapCache
         /\ importMapCache[CacheKey(ImportMapPath, load.prevMtime)] = load.prevRef

\* C8 as amended: of two successive loads of the path, the second returns
\* the first one's object without reading the file when the modification
\* time is the same; a load at a modification time that has no cache entry
\* yet adds a new, independently parsed entry under "<path>-<mtimeMs>",
\* unchanged content or not; a load at a modification time that has one
\* (the file's mtime set back to an earlier value) returns that entry's
\* object without reading; no entry is ever removed or overwritten.
C8_CacheKeyedByMtime == []C8_LoadByKey /\ [][CacheOnlyGrows]_vars

\* the file was touched between two loads (same content, new mtime) and the
\* second load added an entry beside the first one's
C8_Witness ==
  /\ LoadedAgain
  /\ load.mtime # load.prevMtime
  /\ load.added
  /\ Cardinality(DOMAIN importMapCache) = 2
  /\ heap[load.ref] = heap[load.prevRef]

\* a step in which getImportMap was called and returned a map
LoadReturns == load' # load /\ load'.outcome = "returned"

\* the map the call returned is the parse of the file as the call found it
ReturnsCurrentParse ==
  /\ mapFile'.exists
  /\ mapFile'.content.json
  /\ heap'[load'.ref] = JSONParse(mapFile'.content)

\* C11: after any interleaving of edits to the import-map file and loads of
\* it, every load returns the parse of the file's content as it is at the
\* time of that load; a stale import map is never returned by getImportMap.
C11_LoadReturnsCurrentContent == [][LoadReturns => ReturnsCurrentParse]_vars

(***************************************************************************)
(* Import Map Resolver and the plugin's hooks.                             *)
(***************************************************************************)
\* info.project.getCurrentDirectory()
ProjectDir == "/proj"

\* denoOptions.importMap of the project configuration that names an import map
ImportMapOption == "./import_map.json"

\* (moduleName: string) => moduleName
IdentityTransform == [kind |-> "identity", importMap |-> 0]

\* makeTransformFromImportMap(directory) on the disk as it is now: the
\* closure it returns or what it throws, and the cache and heap it leaves.
\* resolveSync finds no configuration file ("none"), or one without
\* denoOptions.importMap ("plain"), or one that names the import map.
makeTransformFromImportMap(directory) ==
  IF tsconfig = "importMap"
    THEN LET tsconfigDirectory == directory
             importMapPath == PathResolve(<<tsconfigDirectory, ImportMapOption>>)
             importMap == getImportMap(importMapPath)
         IN  [ outcome |-> importMap.outcome,
               fn |-> IF importMap.outcome = "returned"
                        THEN [kind |-> "importMap", importMap |-> importMap.ref]
                        ELSE NoTransform,
               cache |-> importMap.cache,
               heap |-> importMap.heap ]
  ELSE [ outcome |-> "returned", fn |-> IdentityTransform,
         cache |-> importMapCache, heap |-> heap ]

\* transform(moduleName), the closure's import map read from heap h
ApplyTransform(transform, h, moduleName) ==
  IF transform.kind = "identity" THEN moduleName
  ELSE importMapTransform(h[transform.importMap], moduleName)

\* the first element of names that is no string, if any: the map that
\* computes it throws there, or never returns
FirstFailure(names) ==
  LET bad == {i \in 1..Len(names) : names[i] \in {TypeError, Hang, RangeError}}
  IN  IF bad = {} THEN "none" ELSE names[CHOOSE i \in bad : \A j \in bad : i <= j]

\* PipelineMap with the first two maps exchanged: the extension is stripped
\* before the import map is applied
PipelineMap_StripFirst(transform, h, moduleNames) ==
  LET stripped == [i \in 1..Len(moduleNames) |-> stripExtNameDotTs(moduleNames[i])]
      mapped == IF FirstFailure(stripped) # "none" THEN stripped
                ELSE [i \in 1..Len(moduleNames) |-> ApplyTransform(transform, h, stripped[i])]
      cached == IF FirstFailure(mapped) # "none" THEN mapped
                ELSE [i \in 1..Len(moduleNames) |-> convertRemoteToLocalCache(mapped[i])]
  IN  [outcome |-> FirstFailure(cached), names |-> cached]

\* moduleNames.map(transformFromImportMap).map(stripExtNameDotTs)
\*            .map(convertRemoteToLocalCache): three passes over the batch, a
\* pass running only if the pass before it returned
PipelineMap(transform, h, moduleNames) ==
  LET mapped == [i \in 1..Len(moduleNames) |-> ApplyTransform(transform, h, moduleNames[i])]
      stripped == IF FirstFailure(mapped) # "none" THEN mapped
                  ELSE [i \in 1..Len(moduleNames) |-> stripExtNameDotTs(mapped[i])]
      cached == IF FirstFailure(stripped) # "none" THEN stripped
                ELSE [i \in 1..Len(moduleNames) |-> convertRemoteToLocalCache(stripped[i])]
  IN  [outcome |-> FirstFailure(cached), names |-> cached]

\* the plugin process is not stuck in a loop that never ends
Running == last.outcome # Hang

\* The wrapped resolveModuleNames(moduleNames, ...): projectDirectory is
\* set, the substitution function is rebuilt and assigned, the batch goes
\* through the three maps and is handed to the host's resolveModuleNames.
\* A throw leaves the assignments made before it.
ResolveModuleNames(moduleNames) ==
  LET made == makeTransformFromImportMap(ProjectDir)
      piped == PipelineMap(made.fn, made.heap, moduleNames)
  IN  /\ Running
      /\ projectDirectory' = ProjectDir
      /\ importMapCache' = made.cache
      /\ heap' = made.heap
      /\ IF made.outcome # "returned"
           THEN /\ UNCHANGED transformFromImportMap
                /\ last' = [ op |-> "resolveModuleNames", moduleNames |-> moduleNames,
                             outcome |-> made.outcome, handed |-> << >> ]
           ELSE /\ transformFromImportMap' = made.fn
                /\ last' = [ op |-> "resolveModuleNames", moduleNames |-> moduleNames,
                             outcome |-> IF piped.outcome = "none" THEN "handed"
                                         ELSE piped.outcome,
                             handed |-> IF piped.outcome = "none" THEN piped.names
                                        ELSE << >> ]
      /\ changed' = FALSE
      /\ UNCHANGED <<pureVars, mapFile, tsconfig, load>>

\* onConfigurationChanged with the rebuild left out
OnConfigurationChanged_NoRebuild ==
  /\ Running
  /\ last' = [ op |-> "onConfigurationChanged", moduleNames |-> << >>,
               outcome |-> "returned", handed |-> << >> ]
  /\ changed' = FALSE
  /\ UNCHANGED <<pureVars, mapFile, tsconfig, projectDirectory, load,
                 importMapCache, heap, transformFromImportMap>>

\* onConfigurationChanged(config): the substitution function is rebuilt if
\* projectDirectory is set. A throw leaves transformFromImportMap as it was.
OnConfigurationChanged ==
  /\ Running
  /\ IF projectDirectory # Undefined
       THEN LET made == makeTransformFromImportMap(projectDirectory)
            IN  /\ importMapCache' = made.cache
                /\ heap' = made.heap
                /\ transformFromImportMap' =
                     IF made.outcome = "returned" THEN made.fn ELSE transformFromImportMap
                /\ last' = [ op |-> "onConfigurationChanged", moduleNames |-> << >>,
                             outcome |-> made.outcome, handed |-> << >> ]
       ELSE /\ UNCHANGED <<importMapCache, heap, transformFromImportMap>>
            /\ last' = [ op |-> "onConfigurationChanged", moduleNames |-> << >>,
                         outcome |-> "returned", handed |-> << >> ]
  /\ changed' = FALSE
  /\ UNCHANGED <<pureVars, mapFile, tsconfig, projectDirectory, load>>

(***************************************************************************)
(* One batch resolution request on a fresh plugin instance, over every     *)
(* project configuration, import-map file and dependency cache below.      *)
(***************************************************************************)
\* a batch holds up to MaxBatch specifiers
MaxBatch == 2

BatchSpecifiers == {"std/log/mod.ts", "log", "./util.ts", "http://h/m.ts?x=1", "./a?b"}

RECURSIVE BatchesOfLen(_)
BatchesOfLen(n) ==
  IF n = 0 THEN {<< >>}
  ELSE {Append(b, s) : b \in BatchesOfLen(n - 1), s \in BatchSpecifiers}

Batches == UNION {BatchesOfLen(n) : n \in 0..MaxBatch}

\* no sidecar, a redirect of std/log/mod to new/mod, a sidecar of
\* std/log/mod that redirects to std/log/mod itself
PipelineSidecars ==
  LET header == LiteralCachePath("https://deno.land/x/std/log/mod") \o ".ts.headers.json"
  IN  { << >>,
        [p \in {header} |-> "https://deno.land/x/new/mod.ts"],
        [p \in {header} |-> "https://deno.land/x/std/log/mod.ts"] }

InitPipeline ==
  /\ call = [fn |-> "none", arg |-> "", ret |-> ""]
  /\ files \in SUBSET ModuleFileUniverse
  /\ sidecars \in PipelineSidecars
  /\ tsconfig \in {"none", "plain", "importMap"}
  /\ mapFile \in {NoFile} \cup [exists : {TRUE}, content : FileContents, mtime : {1}]
  /\ InitStoreVars
  /\ InitPluginVars

\* the host's first batch resolution request
FirstRequest == \E moduleNames \in Batches : last.op = "none" /\ ResolveModuleNames(moduleNames)

NextPipeline == FirstRequest

SpecPipeline == InitPipeline /\ [][NextPipeline]_vars

\* the substitution of the function the request has assigned
ImportMapSubstitution(moduleName) ==
  ApplyTransform(transformFromImportMap, heap, moduleName)

\* the request went through the three maps and reached the host's resolver
BatchHanded == last.op = "resolveModuleNames" /\ last.outcome = "handed"

\* C1: the batch handed to the host's resolveModuleNames has the length and
\* the order of the batch received, and its i-th element is
\* convertRemoteToLocalCache(stripExtNameDotTs(substitution(input[i]))):
\* import-map substitution, then normalization, then cache mapping.
C1_PipelineOrder ==
  BatchHanded =>
    /\ Len(last.handed) = Len(last.moduleNames)
    /\ \A i \in 1..Len(last.moduleNames) :
         last.handed[i] =
           convertRemoteToLocalCache(
             stripExtNameDotTs(ImportMapSubstitution(last.moduleNames[i])))

\* the alias "log" of the import map expands to a remote URL that ends in
\* ".ts", whose module is cached: the batch <<"log", "./util.ts">> is handed
\* over as the cache path without extension, then "./util"
C1_Witness ==
  /\ BatchHanded
  /\ tsconfig = "importMap"
  /\ mapFile.exists /\ mapFile.content = StdMap
  /\ ModuleFileExists(DenoDir \o "/deps/https/deno.land/x/std/log/mod.ts")
  /\ last.moduleNames = <<"log", "./util.ts">>
  /\ last.handed = <<DenoDir \o "/deps/https/deno.land/x/std/log/mod", "./util">>

\* the project configuration names an import map and a first request was made
LoadRequested == last.op = "resolveModuleNames" /\ tsconfig = "importMap"

\* C9: loading an import map fails with a not-found error if the file is
\* missing, and with a parse error if the content is not valid JSON or the
\* parsed document has no "imports" object; in none of these cases is a
\* substitution function returned.
C9_LoadFailsWithoutFunction ==
  LoadRequested =>
    /\ ~mapFile.exists =>
         last.outcome = "ENOENT" /\ transformFromImportMap = NoTransform
    /\ (mapFile.exists /\ ~mapFile.content.json) =>
         last.outcome = "SyntaxError" /\ transformFromImportMap = NoTransform
    /\ (mapFile.exists /\ mapFile.content.json /\ ~mapFile.content.hasImports) =>
         last.outcome = "SyntaxError" /\ transformFromImportMap = NoTransform

(***************************************************************************)
(* The plugin over time: the project configuration and the import-map      *)
(* file change on disk, the host signals configuration changes and sends   *)
(* batches.                                                                *)
(***************************************************************************)
PluginBatches == {<< >>, <<"log">>}

Init ==
  /\ call = [fn |-> "none", arg |-> "", ret |-> ""]
  /\ files = ModuleFileUniverse
  /\ sidecars = << >>
  /\ tsconfig \in {"none", "plain", "importMap"}
  /\ mapFile \in {NoFile} \cup [exists : {TRUE}, content : FileContents, mtime : 1..MaxTime]
  /\ InitStoreVars
  /\ InitPluginVars

\* the project configuration is written or removed
WriteTsconfig(state) ==
  /\ state # tsconfig
  /\ tsconfig' = state
  /\ changed' = TRUE
  /\ UNCHANGED <<pureVars, mapFile, storeVars, hookVars>>

Next ==
  \/ \E state \in {"none", "plain", "importMap"} : WriteTsconfig(state)
  \/ \E doc \in FileContents, t \in 1..MaxTime : WriteImportMap(doc, t)
  \/ DeleteImportMap
  \/ \E moduleNames \in PluginBatches : ResolveModuleNames(moduleNames)
  \/ OnConfigurationChanged

Spec == Init /\ [][Next]_vars

\* a fresh makeTransformFromImportMap of the project directory, on the disk
\* and the cache as they are now
FreshTransform == makeTransformFromImportMap(ProjectDir)

\* the state a configuration-changed signal leaves
AfterSignal == last.op = "onConfigurationChanged" /\ ~changed

\* the state a batch resolution request leaves
AfterRequest == last.op = "resolveModuleNames" /\ ~changed

\* a request rebuilds the substitution function and transforms its batch with
\* the function it has just built
RequestRebuilds ==
  (AfterRequest /\ FreshTransform.outcome = "returned") =>
    /\ transformFromImportMap = FreshTransform.fn
    /\ LET piped == PipelineMap(FreshTransform.fn, heap, last.moduleNames)
       IN  IF piped.outcome = "none"
             THEN last.outcome = "handed" /\ last.handed = piped.names
           ELSE last.outcome = piped.outcome

\* C10 as stated: every configuration-changed signal, in every reachable
\* state, leaves transformFromImportMap reassigned from a fresh
\* makeTransformFromImportMap of the project directory (one that returns), and
\* every batch resolution request rebuilds it before use.
C10_EverySignalRebuilds ==
  /\ (AfterSignal /\ FreshTransform.outcome = "returned") =>
       transformFromImportMap = FreshTransform.fn
  /\ RequestRebuilds

\* C10 as amended: a configuration-changed signal that comes after a batch
\* resolution request leaves transformFromImportMap reassigned from a fresh
\* makeTransformFromImportMap of the project directory (one that returns); a
\* signal that comes before the first request rebuilds nothing and leaves
\* transformFromImportMap undefined; every batch resolution request rebuilds
\* it before use.
C10_SignalRebuildsAfterFirstRequest ==
  /\ (AfterSignal /\ projectDirectory # Undefined /\ FreshTransform.outcome = "returned") =>
       transformFromImportMap = FreshTransform.fn
  /\ projectDirectory = Undefined => transformFromImportMap = NoTransform
  /\ RequestRebuilds

\* a request ran without an import map, the project configuration then named
\* one, and the signal has put the import map's function in place of the
\* identity
C10_Witness ==
  /\ AfterSignal
  /\ projectDirectory = ProjectDir
  /\ tsconfig = "importMap"
  /\ transformFromImportMap.kind = "importMap"
  /\ heap[transformFromImportMap.importMap] = JSONParse(mapFile.content)
  /\ last.outcome = "returned"

====
